---- MODULE Spec2Model ----
(***************************************************************************)
(* Model of the Neuro-Spin dashboard (src/App.tsx): the per-asset          *)
(* statistics map, the set of tracked assets, the global stake, and the    *)
(* one-second simulation tick (processSimulations) that folds a batch of   *)
(* 100 simulated spins into the record of every tracked asset.  It also    *)
(* covers the interval timer the simulation effect registers and clears,   *)
(* and the AI insight request of the selected asset.                       *)
(*                                                                         *)
(* Amounts (stake, win, totalStakes, totalWins) are counted in tenths of   *)
(* a currency unit, the granularity of STAKE_OPTIONS, and are exact.       *)
(* liveRtp is an exact fraction [num, den] in lowest terms.  The rounding  *)
(* of binary floating point is outside this model.                         *)
(***************************************************************************)
EXTENDS Integers, Sequences, FiniteSets, TLC

VARIABLES
    statsMap,        \* useState statsMap:       asset id -> SlotStats
    activeSlots,     \* useState activeSlots:    a JS Set, kept in insertion order
    selectedSlotId,  \* useState selectedSlotId
    globalStake,     \* useState globalStake, in tenths
    rng,             \* state of the random source the simulation engine draws from
    applied,         \* history variable: asset id -> the simulation calls made for it so far
    rtpLog,          \* history variable: asset id -> sequence of liveRtp values computed so far
    ticks,           \* number of timer ticks so far
    userEvents,      \* number of tracking and stake changes so far
    timers,          \* the browser's live interval timers: timer id -> elapsed time and callback
    simulationRef,   \* useRef simulationRef.current: a timer id or Null
    mounted,         \* whether the App component is mounted
    isAiLoading,     \* useState isAiLoading
    aiInsights,      \* useState aiInsights:    asset id -> insight, Undefined when absent
    aiRequests       \* the getAIInsights calls in flight, each with the continuation's slot id

vars == << statsMap, activeSlots, selectedSlotId, globalStake, rng,
           applied, rtpLog, ticks, userEvents,
           timers, simulationRef, mounted, isAiLoading, aiInsights, aiRequests >>

----------------------------------------------------------------------------
(* Bounds of the exploration *)

\* ticks of a run without user interaction
MaxTicks == 31
\* tracking and stake changes in one run
MaxUserEvents == 2
\* the user interacts before this many ticks have passed, and a run with an
\* interaction is followed for this many ticks
InteractionTicks == 4
\* aggregation steps in one run of SpecBatch
MaxApplies == 5
\* the user picks among the first MaxStakeOption entries of STAKE_OPTIONS
MaxStakeOption == 2
\* the random source starts at a position in 0..MaxSeed
MaxSeed == 0
\* time advances in steps of one StepsPerPeriod-th of the interval's period
StepsPerPeriod == 2
\* interval callbacks in one run of SpecTimer
MaxTimerTicks == 1

----------------------------------------------------------------------------
(* Program constants *)

\* STAKE_OPTIONS = [0.1, 0.2, 0.5, 1.0, 2.0, 5.0, 10.0, 50.0, 100.0], in tenths
STAKE_OPTIONS == << 1, 2, 5, 10, 20, 50, 100, 500, 1000 >>

\* useState<number>(1.0), in tenths
InitialStake == 10

\* the batch size passed in runBatchSimulation(config, 100, globalStake)
BatchSize == 100

\* .slice(-100) of history, .slice(-30) of recentRtpHistory
HistoryCap == 100
RtpHistoryCap == 30

----------------------------------------------------------------------------
(* Exact fractions *)

RECURSIVE Gcd(_, _)
Gcd(a, b) == IF b = 0 THEN a ELSE Gcd(b, a % b)

\* the fraction n/d (n >= 0, d > 0) in lowest terms
Frac(n, d) == LET g == Gcd(n, d) IN [num |-> n \div g, den |-> d \div g]

\* p/q > r/s for non-negative fractions, without forming the cross products
RECURSIVE FracGt(_, _, _, _)
FracGt(p, q, r, s) ==
    LET a == p \div q
        b == r \div s
    IN  IF a # b THEN a > b
        ELSE IF p % q = 0 THEN FALSE
        ELSE IF r % s = 0 THEN TRUE
        ELSE FracGt(s, r % s, q, p % q)

Gt(x, y) == FracGt(x.num, x.den, y.num, y.den)

Max(a, b) == IF a >= b THEN a ELSE b

Min(a, b) == IF a <= b THEN a ELSE b

----------------------------------------------------------------------------
(* Asset catalog and initial statistics (./constants) *)

\* hitFreq is hits/RngMod.  paytable is the win-size distribution: a draw u
\* below tier.below (and not below an earlier tier) pays tier.mult times the stake
SLOTS == <<
    [ id |-> "book-of-dead", rtp |-> Frac(96, 1), hits |-> 64,
      paytable |-> << [below |-> 1,  mult |-> 100], [below |-> 4,  mult |-> 16],
                      [below |-> 16, mult |-> 4],   [below |-> 64, mult |-> 1] >> ],
    [ id |-> "razor-shark", rtp |-> Frac(96, 1), hits |-> 32,
      paytable |-> << [below |-> 1,  mult |-> 120], [below |-> 3,  mult |-> 20],
                      [below |-> 8,  mult |-> 6],   [below |-> 32, mult |-> 2] >> ] >>

SlotIds == { SLOTS[i].id : i \in 1..Len(SLOTS) }

\* the value of SLOTS.find(...) when no element matches
Undefined == [undefined |-> TRUE]

\* SLOTS.find(s => s.id === slotId)
Find(slotId) ==
    IF slotId \in SlotIds
    THEN SLOTS[CHOOSE i \in 1..Len(SLOTS) : SLOTS[i].id = slotId]
    ELSE Undefined

InitialStats(config) ==
    [ liveRtp          |-> config.rtp,
      totalSpins       |-> 0,
      totalStakes      |-> 0,
      totalWins        |-> 0,
      maxMultiplier    |-> 0,
      history          |-> << >>,
      recentRtpHistory |-> << >>,
      trend            |-> "up" ]

INITIAL_STATS_MAP == [ id \in SlotIds |-> InitialStats(Find(id)) ]

----------------------------------------------------------------------------
(* Simulation engine (./services/simulationEngine) *)

RngMod == 256
RngMul == 77
RngInc == 43

\* the number the random source yields at position x of its stream, in 0..RngMod-1
Random(x) == (RngMul * x + RngInc) % RngMod

\* the multiplier of a hit on draw u
Payout(paytable, u) ==
    paytable[CHOOSE k \in 1..Len(paytable) :
                /\ u < paytable[k].below
                /\ \A j \in 1..(k - 1) : u >= paytable[j].below].mult

\* one spin: a hit with probability hits/RngMod, then a right-skewed multiplier
simulateSpin(config, stake, u) ==
    LET win == IF u < config.hits THEN stake * Payout(config.paytable, u) ELSE 0
    IN  [ stake      |-> stake,
          win        |-> win,
          multiplier |-> IF stake > 0 THEN win \div stake ELSE 0 ]

\* count independent spins in draw order, drawn from position x of the stream
runBatchSimulation(config, count, stake, x) ==
    [ i \in 1..count |-> simulateSpin(config, stake, Random((x + i - 1) % RngMod)) ]

\* the position of the stream after count spins
Advance(x, count) == (x + count) % RngMod

----------------------------------------------------------------------------
(* processSimulations: the aggregation step of one asset *)

\* rs[lo].stake + ... + rs[hi].stake, 0 for an empty range
RECURSIVE SumStakeRange(_, _, _)
SumStakeRange(rs, lo, hi) ==
    IF lo > hi THEN 0
    ELSE IF lo = hi THEN rs[lo].stake
    ELSE LET mid == (lo + hi) \div 2
         IN  SumStakeRange(rs, lo, mid) + SumStakeRange(rs, mid + 1, hi)

\* a reduce that stops one element early
SumStakeDropsLast(rs) == SumStakeRange(rs, 1, Len(rs) - 1)

\* batchResults.reduce((sum, r) => sum + r.stake, 0)
SumStake(rs) == SumStakeRange(rs, 1, Len(rs))

RECURSIVE SumWinRange(_, _, _)
SumWinRange(rs, lo, hi) ==
    IF lo > hi THEN 0
    ELSE IF lo = hi THEN rs[lo].win
    ELSE LET mid == (lo + hi) \div 2
         IN  SumWinRange(rs, lo, mid) + SumWinRange(rs, mid + 1, hi)

\* batchResults.reduce((sum, r) => sum + r.win, 0)
SumWin(rs) == SumWinRange(rs, 1, Len(rs))

\* the value of Math.max() of no arguments, below every multiplier
NegInfinity == -1

RECURSIVE MaxMultiRange(_, _, _)
MaxMultiRange(rs, lo, hi) ==
    IF lo > hi THEN NegInfinity
    ELSE IF lo = hi THEN rs[lo].multiplier
    ELSE LET mid == (lo + hi) \div 2
         IN  Max(MaxMultiRange(rs, lo, mid), MaxMultiRange(rs, mid + 1, hi))

\* the multiplier of the last spin of the batch instead of the largest
MaxMultiOfLast(rs) == IF rs = << >> THEN NegInfinity ELSE rs[Len(rs)].multiplier

\* Math.max(...batchResults.map(r => r.multiplier))
MaxMulti(rs) == MaxMultiRange(rs, 1, Len(rs))

\* the ratio left as a fraction of 1 instead of a percentage
LiveRtpNotPercent(updatedTotalWins, updatedTotalStakes, config) ==
    IF updatedTotalStakes > 0
    THEN Frac(updatedTotalWins, updatedTotalStakes)
    ELSE config.rtp

\* updatedTotalStakes > 0 ? (updatedTotalWins / updatedTotalStakes) * 100 : config.rtp
LiveRtp(updatedTotalWins, updatedTotalStakes, config) ==
    IF updatedTotalStakes > 0
    THEN Frac(updatedTotalWins * 100, updatedTotalStakes)
    ELSE config.rtp

\* s.slice(-(n + 1)): a window one element too long
SliceLastOffByOne(s, n) == IF Len(s) <= n + 1 THEN s ELSE SubSeq(s, Len(s) - n, Len(s))

\* s.slice(0, n): the window keeps the oldest elements
SliceFirst(s, n) == IF Len(s) <= n THEN s ELSE SubSeq(s, 1, n)

\* s.slice(-n)
SliceLast(s, n) == IF Len(s) <= n THEN s ELSE SubSeq(s, Len(s) - n + 1, Len(s))

\* the spin count taken from the length of the new history window
SpinCountOfWindow(currentStats, batchResults) ==
    Min(HistoryCap, Len(currentStats.history) + Len(batchResults))

\* currentStats.totalSpins + batchResults.length
SpinCount(currentStats, batchResults) == currentStats.totalSpins + Len(batchResults)

\* the maximum of the latest batch alone
LatestMax(maxMultiplier, batchMaxMulti) == batchMaxMulti

\* Math.max(currentStats.maxMultiplier, batchMaxMulti)
RunningMax(maxMultiplier, batchMaxMulti) == Max(maxMultiplier, batchMaxMulti)

\* newLiveRtp >= currentStats.liveRtp ? 'up' : 'down'
TrendTieUp(newLiveRtp, liveRtp) == IF Gt(liveRtp, newLiveRtp) THEN "down" ELSE "up"

\* newLiveRtp > currentStats.liveRtp ? 'up' : 'down'
Trend(newLiveRtp, liveRtp) == IF Gt(newLiveRtp, liveRtp) THEN "up" ELSE "down"

applyBatch(currentStats, config, batchResults) ==
    LET batchStakes        == SumStake(batchResults)
        batchWins          == SumWin(batchResults)
        batchMaxMulti      == MaxMulti(batchResults)
        updatedTotalStakes == currentStats.totalStakes + batchStakes
        updatedTotalWins   == currentStats.totalWins + batchWins
        newLiveRtp         == LiveRtp(updatedTotalWins, updatedTotalStakes, config)
        newHistory         == SliceLast(currentStats.history \o batchResults, HistoryCap)
        newRtpHistory      == SliceLast(Append(currentStats.recentRtpHistory, newLiveRtp),
                                        RtpHistoryCap)
    IN  [ currentStats EXCEPT
          !.liveRtp          = newLiveRtp,
          !.totalSpins       = SpinCount(currentStats, batchResults),
          !.totalStakes      = updatedTotalStakes,
          !.totalWins        = updatedTotalWins,
          !.maxMultiplier    = RunningMax(currentStats.maxMultiplier, batchMaxMulti),
          !.history          = newHistory,
          !.recentRtpHistory = newRtpHistory,
          !.trend            = Trend(newLiveRtp, currentStats.liveRtp) ]

\* the batch simulated at the stake of the first render
SimulateStaleStake(config, stake, x) == runBatchSimulation(config, BatchSize, InitialStake, x)

\* const batchResults = runBatchSimulation(config, 100, globalStake)
Simulate(config, stake, x) == runBatchSimulation(config, BatchSize, stake, x)

\* the step applied to the record of the first render instead of nextMap[slotId]
ProcessSlotStale(acc, slotId, stake) ==
    LET config == Find(slotId)
    IN  IF config = Undefined THEN acc
        ELSE LET currentStats == INITIAL_STATS_MAP[slotId]
                 batchResults == Simulate(config, stake, acc.rng)
                 next         == applyBatch(currentStats, config, batchResults)
             IN  [ map  |-> [acc.map EXCEPT ![slotId] = next],
                   rng  |-> Advance(acc.rng, Len(batchResults)),
                   log  |-> [acc.log EXCEPT ![slotId] =
                               Append(@, [count |-> Len(batchResults),
                                          stake |-> stake, rng |-> acc.rng])],
                   rtps |-> [acc.rtps EXCEPT ![slotId] = Append(@, next.liveRtp)] ]

\* the body without its catalog check: an id SLOTS does not have gets a fresh record
ProcessSlotNoCatalogCheck(acc, slotId, stake) ==
    LET known        == Find(slotId) # Undefined
        config       == IF known THEN Find(slotId) ELSE SLOTS[1]
        currentStats == IF known THEN acc.map[slotId] ELSE InitialStats(config)
        batchResults == Simulate(config, stake, acc.rng)
        next         == applyBatch(currentStats, config, batchResults)
        call         == [count |-> Len(batchResults), stake |-> stake, rng |-> acc.rng]
    IN  [ map  |-> [ id \in DOMAIN acc.map \cup {slotId} |->
                       IF id = slotId THEN next ELSE acc.map[id] ],
          rng  |-> Advance(acc.rng, Len(batchResults)),
          log  |-> IF known THEN [acc.log EXCEPT ![slotId] = Append(@, call)] ELSE acc.log,
          rtps |-> IF known THEN [acc.rtps EXCEPT ![slotId] = Append(@, next.liveRtp)]
                   ELSE acc.rtps ]

\* the body of activeSlots.forEach for one slotId.  acc carries nextMap and the
\* random source; log and rtps are the history variables
ProcessSlot(acc, slotId, stake) ==
    LET config == Find(slotId)
    IN  IF config = Undefined THEN acc
        ELSE LET currentStats == acc.map[slotId]
                 batchResults == Simulate(config, stake, acc.rng)
                 next         == applyBatch(currentStats, config, batchResults)
             IN  [ map  |-> [acc.map EXCEPT ![slotId] = next],
                   rng  |-> Advance(acc.rng, Len(batchResults)),
                   log  |-> [acc.log EXCEPT ![slotId] =
                               Append(@, [count |-> Len(batchResults),
                                          stake |-> stake, rng |-> acc.rng])],
                   rtps |-> [acc.rtps EXCEPT ![slotId] = Append(@, next.liveRtp)] ]

\* activeSlots.forEach(...), in the insertion order of the Set
RECURSIVE forEachActive(_, _, _)
forEachActive(slots, stake, acc) ==
    IF slots = << >> THEN acc
    ELSE forEachActive(Tail(slots), stake, ProcessSlot(acc, Head(slots), stake))

----------------------------------------------------------------------------
(* The interval timer of the simulation effect *)

\* useRef<number | null>(null)
Null == 0

\* the callback a timer was registered with: processSimulations as created by
\* the render that saw the tracked set slots and the stake
processSimulationsOf(slots, stake) == [ slots |-> slots, stake |-> stake ]

\* window.setInterval: the id the new timer gets, one no live timer has
NewTimerId(ts) ==
    CHOOSE id \in 1..(Cardinality(DOMAIN ts) + 1) :
        /\ id \notin DOMAIN ts
        /\ \A other \in 1..(id - 1) : other \in DOMAIN ts

\* window.setInterval(callback, 1000): the timers after the registration
setInterval(ts, callback) ==
    LET id == NewTimerId(ts)
    IN  [ t \in DOMAIN ts \cup {id} |->
            IF t = id THEN [ elapsed |-> 0, callback |-> callback ] ELSE ts[t] ]

\* window.clearInterval(id)
clearInterval(ts, id) == [ t \in DOMAIN ts \ {id} |-> ts[t] ]

\* a cleanup that clears nothing
CleanupForgets(ts, ref) == ts

\* the cleanup of the simulation effect: the timers it leaves
Cleanup(ts, ref) == IF ref # Null THEN clearInterval(ts, ref) ELSE ts

\* the simulation effect runs for the first time: it registers the interval
\* and keeps its id in simulationRef
RunSimulationEffect(ts, slots, stake) ==
    /\ timers' = setInterval(ts, processSimulationsOf(slots, stake))
    /\ simulationRef' = NewTimerId(ts)

\* processSimulations changed with the tracked set or the stake: the cleanup of
\* the previous effect runs, then the effect again
RerunSimulationEffect(slots, stake) ==
    RunSimulationEffect(Cleanup(timers, simulationRef), slots, stake)

----------------------------------------------------------------------------
(* The AI insight of the selected asset *)

\* what getAIInsights resolves to: an insight, or the service's notice that
\* the analysis is unavailable
Outcomes == { "insight", "unavailable" }

\* refreshAI up to its await: nothing when an AI call is loading, else the
\* loading flag is set and getAIInsights is called for the asset sel
refreshAI(sel) ==
    IF Find(sel) = Undefined \/ isAiLoading
    THEN UNCHANGED << isAiLoading, aiRequests >>
    ELSE /\ isAiLoading' = TRUE
         /\ aiRequests' = aiRequests \cup
                { [ slotId |-> sel, spins |-> statsMap[sel].totalSpins ] }

\* a continuation that resets the loading flag only when an insight came back
refreshAIResumeStaysLoading(request, outcome) ==
    /\ aiInsights' = [ aiInsights EXCEPT
                         ![request.slotId] = [ kind |-> outcome, spins |-> request.spins ] ]
    /\ isAiLoading' = (outcome # "insight")
    /\ aiRequests' = aiRequests \ {request}

\* refreshAI after its await: the insight is stored under the slot id the call
\* was made for and the loading flag is reset
refreshAIResume(request, outcome) ==
    /\ aiInsights' = [ aiInsights EXCEPT
                         ![request.slotId] = [ kind |-> outcome, spins |-> request.spins ] ]
    /\ isAiLoading' = FALSE
    /\ aiRequests' = aiRequests \ {request}

----------------------------------------------------------------------------
(* The dashboard: state machine of the App component *)

StakeChoices == { STAKE_OPTIONS[i] : i \in 1..MaxStakeOption }

\* the state after the first render and its effects: the interval is
\* registered and the insight of the selected asset is requested
Init ==
    /\ statsMap = INITIAL_STATS_MAP
    /\ activeSlots = << "book-of-dead", "razor-shark" >>
    /\ selectedSlotId = "book-of-dead"
    /\ globalStake = InitialStake
    /\ rng \in 0..MaxSeed
    /\ applied = [ id \in SlotIds |-> << >> ]
    /\ rtpLog = [ id \in SlotIds |-> << >> ]
    /\ ticks = 0
    /\ userEvents = 0
    /\ timers = setInterval(<< >>, processSimulationsOf(activeSlots, globalStake))
    /\ simulationRef = NewTimerId(<< >>)
    /\ mounted = TRUE
    /\ isAiLoading = TRUE
    /\ aiInsights = [ id \in SlotIds |-> Undefined ]
    /\ aiRequests = { [ slotId |-> selectedSlotId, spins |-> 0 ] }

\* the callback of the live timer id runs: processSimulations
processSimulations(id) ==
    /\ id \in DOMAIN timers
    /\ LET callback == timers[id].callback
           r == forEachActive(callback.slots, callback.stake,
                  [map |-> statsMap, rng |-> rng, log |-> applied, rtps |-> rtpLog])
       IN  /\ statsMap' = r.map
           /\ rng' = r.rng
           /\ applied' = r.log
           /\ rtpLog' = r.rtps
    /\ ticks' = ticks + 1
    /\ UNCHANGED << activeSlots, selectedSlotId, globalStake, userEvents,
                    simulationRef, mounted, isAiLoading, aiInsights, aiRequests >>

\* the interval fires
Tick ==
    /\ ticks < MaxTicks
    /\ userEvents > 0 => ticks < InteractionTicks
    /\ \E id \in DOMAIN timers : processSimulations(id)
    /\ UNCHANGED timers

\* s without its element id
Without(s, id) == SelectSeq(s, LAMBDA x : x # id)

\* Set.has
Has(s, id) == \E i \in 1..Len(s) : s[i] = id

\* a tracking switch that also starts the record of the asset afresh
toggleSlotTrackingResets(id) ==
    /\ mounted
    /\ activeSlots' = IF Has(activeSlots, id) THEN Without(activeSlots, id)
                      ELSE Append(activeSlots, id)
    /\ statsMap' = [statsMap EXCEPT ![id] = INITIAL_STATS_MAP[id]]
    /\ RerunSimulationEffect(activeSlots', globalStake)
    /\ UNCHANGED << selectedSlotId, globalStake, rng, applied, rtpLog, ticks,
                    mounted, isAiLoading, aiInsights, aiRequests >>

\* the tracking switch of an asset card, and the effect the new tracked set re-runs
toggleSlotTracking(id) ==
    /\ mounted
    /\ activeSlots' = IF Has(activeSlots, id) THEN Without(activeSlots, id)
                      ELSE Append(activeSlots, id)
    /\ RerunSimulationEffect(activeSlots', globalStake)
    /\ UNCHANGED << statsMap, selectedSlotId, globalStake, rng, applied, rtpLog, ticks,
                    mounted, isAiLoading, aiInsights, aiRequests >>

\* the stake selector's onChange, and the effect the new stake re-runs
setGlobalStake(s) ==
    /\ mounted
    /\ s # globalStake
    /\ globalStake' = s
    /\ RerunSimulationEffect(activeSlots, globalStake')
    /\ UNCHANGED << statsMap, activeSlots, selectedSlotId, rng, applied, rtpLog, ticks,
                    mounted, isAiLoading, aiInsights, aiRequests >>

\* a click on an asset card, and the effect the new selection runs: refreshAI
setSelectedSlotId(id) ==
    /\ mounted
    /\ id # selectedSlotId
    /\ selectedSlotId' = id
    /\ refreshAI(id)
    /\ UNCHANGED << statsMap, activeSlots, globalStake, rng, applied, rtpLog, ticks,
                    userEvents, timers, simulationRef, mounted, aiInsights >>

\* the user switches the tracking of an asset, within the run's budget
UserToggles(id) ==
    /\ userEvents < MaxUserEvents
    /\ ticks < InteractionTicks
    /\ toggleSlotTracking(id)
    /\ userEvents' = userEvents + 1

\* the user picks another stake, within the run's budget
UserSetsStake(s) ==
    /\ userEvents < MaxUserEvents
    /\ ticks < InteractionTicks
    /\ setGlobalStake(s)
    /\ userEvents' = userEvents + 1

Next ==
    \/ Tick
    \/ \E id \in SlotIds : UserToggles(id)
    \/ \E s \in StakeChoices \cup {InitialStake} : UserSetsStake(s)
    \/ \E id \in SlotIds : setSelectedSlotId(id)

Spec == Init /\ [][Next]_vars

----------------------------------------------------------------------------
(* The aggregation step on its own: batches of any size folded into one record *)

BatchSizes == { 1, 30, BatchSize }

InitBatch ==
    /\ statsMap = INITIAL_STATS_MAP
    /\ \E id \in SlotIds : activeSlots = << id >>
    /\ selectedSlotId = "book-of-dead"
    /\ globalStake \in StakeChoices \cup {InitialStake}
    /\ rng \in 0..MaxSeed
    /\ applied = [ id \in SlotIds |-> << >> ]
    /\ rtpLog = [ id \in SlotIds |-> << >> ]
    /\ ticks = 0
    /\ userEvents = 0
    /\ timers = << >>
    /\ simulationRef = Null
    /\ mounted = FALSE
    /\ isAiLoading = FALSE
    /\ aiInsights = [ id \in SlotIds |-> Undefined ]
    /\ aiRequests = {}

\* one aggregation step with a batch of count spins on the record of the tracked asset
ApplyBatch(count) ==
    /\ ticks < MaxApplies
    /\ LET slotId       == activeSlots[1]
           config       == Find(slotId)
           batchResults == runBatchSimulation(config, count, globalStake, rng)
           next         == applyBatch(statsMap[slotId], config, batchResults)
       IN  /\ statsMap' = [statsMap EXCEPT ![slotId] = next]
           /\ rng' = Advance(rng, count)
           /\ applied' = [applied EXCEPT ![slotId] =
                            Append(@, [count |-> count, stake |-> globalStake, rng |-> rng])]
           /\ rtpLog' = [rtpLog EXCEPT ![slotId] = Append(@, next.liveRtp)]
    /\ ticks' = ticks + 1
    /\ UNCHANGED << activeSlots, selectedSlotId, globalStake, userEvents,
                    timers, simulationRef, mounted, isAiLoading, aiInsights, aiRequests >>

NextBatch == \E count \in BatchSizes : ApplyBatch(count)

SpecBatch == InitBatch /\ [][NextBatch]_vars

----------------------------------------------------------------------------
(* The aggregation step handed a batch of any size, the empty batch included *)

NextEmptyBatch == \E count \in BatchSizes \cup {0} : ApplyBatch(count)

SpecEmptyBatch == InitBatch /\ [][NextEmptyBatch]_vars

----------------------------------------------------------------------------
(* The dashboard with a tracked id the catalog does not have *)

\* an id no entry of SLOTS has
UnknownSlotId == "unknown-slot"

\* the sequences over ids in which no id occurs twice
RECURSIVE Orderings(_)
Orderings(ids) ==
    IF ids = {} THEN { << >> }
    ELSE UNION { { << id >> \o rest : rest \in Orderings(ids \ {id}) } : id \in ids }

\* the tracked sets that hold the unknown id, in every insertion order
DesyncedSets ==
    UNION { Orderings(ids \cup {UnknownSlotId}) : ids \in SUBSET SlotIds }

InitDesync ==
    /\ statsMap = INITIAL_STATS_MAP
    /\ activeSlots \in DesyncedSets
    /\ selectedSlotId = "book-of-dead"
    /\ globalStake = InitialStake
    /\ rng \in 0..MaxSeed
    /\ applied = [ id \in SlotIds |-> << >> ]
    /\ rtpLog = [ id \in SlotIds |-> << >> ]
    /\ ticks = 0
    /\ userEvents = 0
    /\ timers = setInterval(<< >>, processSimulationsOf(activeSlots, globalStake))
    /\ simulationRef = NewTimerId(<< >>)
    /\ mounted = TRUE
    /\ isAiLoading = TRUE
    /\ aiInsights = [ id \in SlotIds |-> Undefined ]
    /\ aiRequests = { [ slotId |-> selectedSlotId, spins |-> 0 ] }

\* the interval fires while the user may still interact
TickEarly == ticks < InteractionTicks /\ Tick

NextDesync ==
    \/ TickEarly
    \/ \E id \in SlotIds : UserToggles(id)

SpecDesync == InitDesync /\ [][NextDesync]_vars

----------------------------------------------------------------------------
(* The dashboard in time: the interval counts down, the user acts at any moment *)

\* a fraction of the interval's period passes: no live timer is due
TimePasses ==
    /\ DOMAIN timers # {}
    /\ \A id \in DOMAIN timers : timers[id].elapsed < StepsPerPeriod
    /\ timers' = [ id \in DOMAIN timers |->
                     [ timers[id] EXCEPT !.elapsed = @ + 1 ] ]
    /\ UNCHANGED << statsMap, activeSlots, selectedSlotId, globalStake, rng, applied,
                    rtpLog, ticks, userEvents, simulationRef, mounted, isAiLoading,
                    aiInsights, aiRequests >>

\* the period of the live timer id has passed
Due(id) == id \in DOMAIN timers /\ timers[id].elapsed = StepsPerPeriod

\* a live timer is due: its callback runs and its next period starts
TimerFires ==
    /\ ticks < MaxTimerTicks
    /\ \E id \in DOMAIN timers :
           /\ Due(id)
           /\ processSimulations(id)
           /\ timers' = [ timers EXCEPT ![id].elapsed = 0 ]

\* TimerFires by its guard and its tick count alone: TimerFires is the only
\* action that counts a tick, so the steps of this formula are the steps of
\* TimerFires, and it is enabled in the same states
DueCallbackRuns ==
    /\ ticks < MaxTimerTicks
    /\ \E id \in DOMAIN timers : Due(id)
    /\ ticks' = ticks + 1

\* the user switches the tracking of an asset, at any moment and any number of times
TogglesAnyTime(id) == toggleSlotTracking(id) /\ UNCHANGED userEvents

\* the user picks another stake, at any moment and any number of times
SetsStakeAnyTime(s) == setGlobalStake(s) /\ UNCHANGED userEvents

\* the component unmounts: the cleanup of the simulation effect runs
Unmount ==
    /\ mounted
    /\ timers' = Cleanup(timers, simulationRef)
    /\ mounted' = FALSE
    /\ UNCHANGED << statsMap, activeSlots, selectedSlotId, globalStake, rng, applied,
                    rtpLog, ticks, userEvents, simulationRef, isAiLoading, aiInsights,
                    aiRequests >>

\* the component mounts again with its state kept: both effects run anew
Remount ==
    /\ ~mounted
    /\ RunSimulationEffect(timers, activeSlots, globalStake)
    /\ refreshAI(selectedSlotId)
    /\ mounted' = TRUE
    /\ UNCHANGED << statsMap, activeSlots, selectedSlotId, globalStake, rng, applied,
                    rtpLog, ticks, userEvents, aiInsights >>

NextTimer ==
    \/ TimePasses
    \/ TimerFires
    \/ \E id \in SlotIds : TogglesAnyTime(id)
    \/ \E s \in StakeChoices \cup {InitialStake} : SetsStakeAnyTime(s)
    \/ Unmount
    \/ Remount

\* time does not stop, and the browser runs the callback of a timer that is due
SpecTimer ==
    /\ Init
    /\ [][NextTimer]_vars
    /\ WF_vars(TimePasses)
    /\ WF_ticks(DueCallbackRuns)

----------------------------------------------------------------------------
(* The dashboard and the AI service: selections, refreshes and answers *)

\* the Refresh AI button, disabled while an AI call is loading
ClickRefreshAI ==
    /\ mounted
    /\ ~isAiLoading
    /\ refreshAI(selectedSlotId)
    /\ UNCHANGED << statsMap, activeSlots, selectedSlotId, globalStake, rng, applied,
                    rtpLog, ticks, userEvents, timers, simulationRef, mounted,
                    aiInsights >>

\* a getAIInsights call in flight resolves, and refreshAI continues after its await
AIAnswers ==
    /\ \E request \in aiRequests, outcome \in Outcomes :
           refreshAIResume(request, outcome)
    /\ UNCHANGED << statsMap, activeSlots, selectedSlotId, globalStake, rng, applied,
                    rtpLog, ticks, userEvents, timers, simulationRef, mounted >>

NextAI ==
    \/ TickEarly
    \/ \E id \in SlotIds : setSelectedSlotId(id)
    \/ ClickRefreshAI
    \/ AIAnswers

\* the AI service answers every call
SpecAI ==
    /\ Init
    /\ [][NextAI]_vars
    /\ WF_vars(AIAnswers)

----------------------------------------------------------------------------
(* What the properties are stated over: the spins and liveRtp values applied *)

\* the spin results of the simulation call d made for asset id
BatchOf(id, d) == runBatchSimulation(Find(id), d.count, d.stake, d.rng)

\* ss[lo] \o ... \o ss[hi]
RECURSIVE ConcatRange(_, _, _)
ConcatRange(ss, lo, hi) ==
    IF lo > hi THEN << >>
    ELSE IF lo = hi THEN ss[lo]
    ELSE LET mid == (lo + hi) \div 2
         IN  ConcatRange(ss, lo, mid) \o ConcatRange(ss, mid + 1, hi)

\* every spin result ever applied to the record of asset id, in draw order
AllSpins(id) ==
    LET ss == [ k \in 1..Len(applied[id]) |-> BatchOf(id, applied[id][k]) ]
    IN  ConcatRange(ss, 1, Len(ss))

\* the last k elements of s, in order
LastOf(s, k) == [ i \in 1..k |-> s[Len(s) - k + i] ]

\* f[lo] + ... + f[hi] of a sequence of numbers
RECURSIVE SumRange(_, _, _)
SumRange(f, lo, hi) ==
    IF lo > hi THEN 0
    ELSE IF lo = hi THEN f[lo]
    ELSE LET mid == (lo + hi) \div 2
         IN  SumRange(f, lo, mid) + SumRange(f, mid + 1, hi)

SumOf(f) == SumRange(f, 1, Len(f))

----------------------------------------------------------------------------
(* Properties *)

\* C1: in every reachable state every asset record has at most 100 entries in
\* history and at most 30 entries in recentRtpHistory.
C1_BoundedWindows ==
    \A id \in SlotIds :
        /\ Len(statsMap[id].history) <= 100
        /\ Len(statsMap[id].recentRtpHistory) <= 30

\* an asset both of whose windows are full and have evicted entries
C1_Witness ==
    \E id \in SlotIds :
        /\ statsMap[id].totalSpins > 100
        /\ Len(statsMap[id].history) = 100
        /\ Len(rtpLog[id]) > 30
        /\ Len(statsMap[id].recentRtpHistory) = 30

\* C2: history is the last min(100, n) of the n spin results ever applied, in
\* draw order, and recentRtpHistory is the last min(30, k) of the k liveRtp
\* values computed so far, in order.
C2_WindowsAreSuffixes ==
    \A id \in SlotIds :
        LET all == AllSpins(id)
        IN  /\ statsMap[id].history = LastOf(all, Min(100, Len(all)))
            /\ statsMap[id].recentRtpHistory = LastOf(rtpLog[id], Min(30, Len(rtpLog[id])))

\* both windows have evicted, and the liveRtp window holds different values
C2_Witness ==
    \E id \in SlotIds :
        /\ Len(applied[id]) > 30
        /\ Len(statsMap[id].recentRtpHistory) = 30
        /\ statsMap[id].recentRtpHistory[1] # statsMap[id].recentRtpHistory[30]
        /\ rtpLog[id][1] # statsMap[id].recentRtpHistory[1]
        /\ statsMap[id].totalSpins > 100

\* C3: no step of the system (tick, tracking toggle, stake change, selection
\* change) decreases totalSpins, totalStakes, totalWins or maxMultiplier of any
\* asset record.
C3_MonotonicAccumulators ==
    [][ \A id \in SlotIds :
            /\ statsMap'[id].totalSpins >= statsMap[id].totalSpins
            /\ statsMap'[id].totalStakes >= statsMap[id].totalStakes
            /\ statsMap'[id].totalWins >= statsMap[id].totalWins
            /\ statsMap'[id].maxMultiplier >= statsMap[id].maxMultiplier ]_vars

\* after a user interaction, an asset has had several steps and keeps a maximum
\* that is above every multiplier of its latest batch
C3_Witness ==
    \E id \in SlotIds :
        /\ userEvents > 0
        /\ Len(applied[id]) >= 2
        /\ \A i \in 1..Len(statsMap[id].history) :
               statsMap[id].history[i].multiplier < statsMap[id].maxMultiplier

\* C4: totalStakes and totalWins are the sums of stake and of win over all the
\* spin results ever applied to the record, not only those still in history.
C4_TotalsNeverEvict ==
    \A id \in SlotIds :
        LET all == AllSpins(id)
        IN  /\ statsMap[id].totalStakes = SumOf([ i \in 1..Len(all) |-> all[i].stake ])
            /\ statsMap[id].totalWins = SumOf([ i \in 1..Len(all) |-> all[i].win ])

\* history has evicted, and the totals exceed what history still holds
C4_Witness ==
    \E id \in SlotIds :
        LET h == statsMap[id].history
        IN  /\ statsMap[id].totalSpins > 100
            /\ Len(h) = 100
            /\ statsMap[id].totalStakes > SumOf([ i \in 1..Len(h) |-> h[i].stake ])
            /\ statsMap[id].totalWins > SumOf([ i \in 1..Len(h) |-> h[i].win ])
            /\ \E j, k \in 1..Len(applied[id]) : applied[id][j].stake # applied[id][k].stake

\* C5: liveRtp is (totalWins / totalStakes) x 100 when totalStakes > 0 and the
\* configured rtp when totalStakes = 0.
C5_LiveRtpDerived ==
    \A id \in SlotIds :
        LET st == statsMap[id]
        IN  IF st.totalStakes > 0
            THEN /\ st.liveRtp.den > 0
                 /\ st.totalStakes % st.liveRtp.den = 0
                 /\ st.liveRtp.num * (st.totalStakes \div st.liveRtp.den) = 100 * st.totalWins
            ELSE st.liveRtp = Find(id).rtp

\* ticks have passed, one asset has staked and moved off the configured rtp while
\* another has not staked yet and still shows it
C5_Witness ==
    \E a, b \in SlotIds :
        /\ ticks > 0
        /\ statsMap[a].totalStakes > 0
        /\ statsMap[a].liveRtp # Find(a).rtp
        /\ statsMap[b].totalStakes = 0
        /\ statsMap[b].liveRtp = Find(b).rtp

\* x > y for fractions
Greater(x, y) == x.num * y.den > y.num * x.den

\* an aggregation step is applied to the record of asset id in this step
Stepped(id) == Len(applied'[id]) = Len(applied[id]) + 1

\* C6: after an aggregation step trend is 'up' if and only if the new liveRtp is
\* strictly greater than the liveRtp before the step, and 'down' otherwise.
C6_TrendStrict ==
    [][ \A id \in SlotIds :
            Stepped(id) =>
                statsMap'[id].trend =
                    IF Greater(statsMap'[id].liveRtp, statsMap[id].liveRtp)
                    THEN "up" ELSE "down" ]_vars

\* the latest step of an asset left liveRtp exactly where it was, and trend is 'down'
C6_Witness ==
    \E id \in SlotIds :
        LET h == statsMap[id].recentRtpHistory
        IN  /\ Len(h) >= 2
            /\ h[Len(h)] = h[Len(h) - 1]
            /\ statsMap[id].liveRtp = h[Len(h)]
            /\ statsMap[id].trend = "down"

\* C7: maxMultiplier is the maximum of the record's initial maxMultiplier and the
\* multiplier of every spin result ever applied to the record.
C7_RunningMaximum ==
    \A id \in SlotIds :
        LET all  == AllSpins(id)
            init == INITIAL_STATS_MAP[id].maxMultiplier
            m    == statsMap[id].maxMultiplier
        IN  /\ m >= init
            /\ \A i \in 1..Len(all) : all[i].multiplier <= m
            /\ \/ m = init
               \/ \E i \in 1..Len(all) : all[i].multiplier = m

\* the spin that set the maximum has been evicted from history
C7_Witness ==
    \E id \in SlotIds :
        /\ statsMap[id].totalSpins > 100
        /\ statsMap[id].maxMultiplier > 0
        /\ \A i \in 1..Len(statsMap[id].history) :
               statsMap[id].history[i].multiplier < statsMap[id].maxMultiplier

\* C8: from an empty record, after any sequence of non-empty batches totalSpins
\* is the sum of the batch sizes and len(history) = min(100, totalSpins).
C8_SpinsAndWindowLength ==
    \A id \in SlotIds :
        /\ \A k \in 1..Len(applied[id]) : applied[id][k].count > 0
        /\ statsMap[id].totalSpins =
               SumOf([ k \in 1..Len(applied[id]) |-> applied[id][k].count ])
        /\ Len(statsMap[id].history) = Min(100, statsMap[id].totalSpins)

\* five batches of 30: 150 spins, 100 of them in history
C8_Witness ==
    \E id \in SlotIds :
        /\ Len(applied[id]) = 5
        /\ \A k \in 1..5 : applied[id][k].count = 30
        /\ statsMap[id].totalSpins = 150
        /\ Len(statsMap[id].history) = 100

\* this step is a timer tick
IsTick == ticks' = ticks + 1

\* the batch of the latest simulation call made for asset id, after this step
NewBatch(id) == BatchOf(id, applied'[id][Len(applied'[id])])

\* C9: on every tick each active catalog asset undergoes exactly one aggregation
\* step (totalSpins grows by one batch of 100, one liveRtp snapshot is appended
\* to recentRtpHistory), applied to the record the previous tick produced; the
\* record of an asset that is not active is left as it was.
C9_OneStepPerTick ==
    [][ IsTick =>
          \A id \in SlotIds :
              IF Has(activeSlots, id)
              THEN LET old   == statsMap[id]
                       new   == statsMap'[id]
                       snaps == Append(old.recentRtpHistory, new.liveRtp)
                   IN  /\ Stepped(id)
                       /\ Len(rtpLog'[id]) = Len(rtpLog[id]) + 1
                       \* the 100 spins of the batch fill the window
                       /\ new.history = NewBatch(id)
                       /\ Len(new.history) = 100
                       /\ new.totalSpins = old.totalSpins + 100
                       /\ new.totalStakes =
                              old.totalStakes + SumOf([ i \in 1..100 |-> new.history[i].stake ])
                       /\ new.totalWins =
                              old.totalWins + SumOf([ i \in 1..100 |-> new.history[i].win ])
                       /\ new.recentRtpHistory = LastOf(snaps, Min(30, Len(snaps)))
              ELSE /\ statsMap'[id] = statsMap[id]
                   /\ applied'[id] = applied[id] ]_vars

\* after several ticks one asset has been stepped on every tick and another,
\* paused for a while, on some of them
C9_Witness ==
    \E a, b \in SlotIds :
        /\ ticks >= 3
        /\ statsMap[a].totalSpins = 100 * ticks
        /\ statsMap[b].totalSpins > 0
        /\ statsMap[b].totalSpins < statsMap[a].totalSpins
        /\ Has(activeSlots, b)

EmptyStep(id) == Stepped(id) /\ applied'[id][Len(applied'[id])].count = 0

\* C11: an aggregation step invoked with an empty batch does not complete as if
\* it had succeeded: it appends no snapshot to recentRtpHistory, does not change
\* trend and leaves maxMultiplier as it was.
C11_EmptyBatchRejected ==
    [][ \A id \in SlotIds :
            EmptyStep(id) =>
                /\ statsMap'[id].recentRtpHistory = statsMap[id].recentRtpHistory
                /\ statsMap'[id].trend = statsMap[id].trend
                /\ statsMap'[id].maxMultiplier = statsMap[id].maxMultiplier ]_vars

\* what a tick would leave if the unknown id were not in the tracked set
WithoutUnknown ==
    forEachActive(Without(activeSlots, UnknownSlotId), globalStake,
                  [map |-> statsMap, rng |-> rng, log |-> applied, rtps |-> rtpLog])

\* C12: when the tracked set holds an id the catalog does not have, a tick
\* creates no stats record for it: statsMap has the same keys after the tick as
\* before, and the records of the other assets (and the random source they draw
\* from) are exactly what the tick without the unknown id would have left.
C12_NoPhantomRecord ==
    [][ (IsTick /\ Has(activeSlots, UnknownSlotId)) =>
            /\ DOMAIN statsMap' = DOMAIN statsMap
            /\ UnknownSlotId \notin DOMAIN statsMap'
            /\ \A id \in SlotIds : statsMap'[id] = WithoutUnknown.map[id]
            /\ rng' = WithoutUnknown.rng ]_vars

\* the unknown id is tracked ahead of a catalog asset, which has been stepped
\* on each of three ticks while another catalog asset was stepped on some of them
C12_Witness ==
    \E a, b \in SlotIds :
        /\ Len(activeSlots) = 3
        /\ activeSlots[1] = UnknownSlotId
        /\ activeSlots[2] = a
        /\ ticks = 3
        /\ statsMap[a].totalSpins = 300
        /\ statsMap[b].totalSpins \in { 100, 200 }
        /\ DOMAIN statsMap = SlotIds

\* a tick that met the unknown id ended exactly as the tick without it: the id
\* was skipped and nothing tells the caller
SkippedSilently ==
    /\ IsTick
    /\ statsMap' = WithoutUnknown.map
    /\ rng' = WithoutUnknown.rng
    /\ applied' = WithoutUnknown.log
    /\ rtpLog' = WithoutUnknown.rtps

\* C13: when aggregation is requested for an id the catalog does not have, the
\* violation surfaces to the caller: the tick does not run to completion as if
\* the id had not been there.
C13_UnknownAssetSignalled ==
    [][ Has(activeSlots, UnknownSlotId) => ~SkippedSilently ]_vars

\* C14: pausing is lossless.  A tick leaves the record of every asset that is
\* not active exactly as it was; a tracking switch, a stake change and a
\* selection change leave every record as it was; and so the record of an asset
\* holds exactly the steps applied to it, whatever pauses lay between them: a
\* re-activated asset continues from the record it had when it was deactivated.
C14_PausingLossless ==
    [][ /\ IsTick =>
             \A id \in SlotIds :
                 ~Has(activeSlots, id) => statsMap'[id] = statsMap[id]
        /\ ~IsTick => statsMap' = statsMap
        /\ \A id \in SlotIds :
             /\ statsMap'[id].totalSpins = 100 * Len(applied'[id])
             /\ statsMap'[id].totalStakes =
                    SumOf([ k \in 1..Len(applied'[id]) |-> 100 * applied'[id][k].stake ])
             /\ Stepped(id) =>
                    /\ statsMap'[id].totalSpins = statsMap[id].totalSpins + 100
                    /\ statsMap'[id].totalWins =
                           statsMap[id].totalWins + SumWin(statsMap'[id].history) ]_vars

\* asset b was stepped on the first tick, paused over the second while asset a
\* was stepped, re-activated and stepped again on the third
C14_Witness ==
    \E a, b \in SlotIds :
        /\ a # b
        /\ ticks = 3
        /\ userEvents = 2
        /\ Len(applied[a]) = 3
        /\ Len(applied[b]) = 2
        /\ applied[b][1].rng = Advance(applied[a][1].rng, 100)
        /\ applied[b][2].rng = Advance(applied[a][3].rng, 100)
        /\ statsMap[b].totalSpins = 200
        /\ Has(activeSlots, b)

\* C16: an asset that stays in the tracked set of the mounted dashboard
\* eventually receives an aggregation step, however often the stake is changed
\* or the tracking of other assets is switched.
C16_ActiveAssetStepped ==
    \A id \in SlotIds :
        [](mounted /\ Has(activeSlots, id)) => <>(statsMap[id].totalSpins > 0)

\* C17: at most one simulation interval timer is registered at any time: while
\* the component is mounted the only live timer is the one simulationRef holds,
\* and after the unmount no timer remains.
C17_SingleTimer ==
    /\ Cardinality(DOMAIN timers) <= 1
    /\ mounted => DOMAIN timers = { simulationRef }
    /\ ~mounted => DOMAIN timers = {}

\* after a stake change, a tracking switch and a tick the component has been
\* unmounted, and no timer is left
C17_Witness ==
    /\ ~mounted
    /\ DOMAIN timers = {}
    /\ simulationRef # Null
    /\ globalStake # InitialStake
    /\ Len(activeSlots) = 1
    /\ ticks = 1

C19_SelectionRequestsInsight ==
    [][ selectedSlotId' # selectedSlotId =>
            \E request \in aiRequests' : request.slotId = selectedSlotId' ]_vars

====
